---- MODULE Spec2Model ----
(***************************************************************************)
(* Model of the personal_investing quarterly rebalancer: the Ranker        *)
(* (selection.py), the two-stage optimizer and portfolio statistics        *)
(* (optimizer.py), the rebalance run (rebalance.py), the quarter dates     *)
(* (dates.py), the scheduler (schedule.py) and the price cache (data.py).  *)
(*                                                                         *)
(* Real numbers are fixed-point integers.  Weights are counted in units of *)
(* 1e-6 (the optimizer's drop threshold), so 1.0 is SCALE units; a         *)
(* division rounds down to a whole unit, which stands for the rounding of  *)
(* a floating-point division.                                              *)
(***************************************************************************)
EXTENDS Integers, Sequences, FiniteSets, TLC

\* ---------------------------------------------------------------- bounds
MaxCols == 3          \* most candidate columns handed to the optimizer / ranker
MaxPositions == 3     \* largest max_positions tried
MaxTopN == 2          \* largest top_n tried
MaxUniverse == 2      \* most assets in the universe of a rebalance run
MaxMinObs == 2        \* largest min_observations tried
MaxCoreCols == 1      \* most columns of the matrix handed to both ranker and optimizer
SolverEps == 100      \* largest constraint violation of a solver output, in units (1e-4)

\* ------------------------------------------------------- program constants
SCALE == 1000000      \* 1.0 in weight units: the unit is the 1e-6 of optimizer.py:45
DropThreshold == 1    \* the 1e-6 of `stage2 > 1e-6`, in weight units

Half == SCALE \div 2
\* max_weight values tried: config.py allows any value in (0, 1]
MaxWeights == {Half, SCALE}

\* ---------------------------------------------------------------- helpers
Min(a, b) == IF a <= b THEN a ELSE b

RECURSIVE SumSeq(_)
SumSeq(s) == IF s = <<>> THEN 0 ELSE Head(s) + SumSeq(Tail(s))

\* A pandas Series: a sequence of [col, val] pairs in index order.
SeriesOf(cols, vals) == [i \in 1..Len(cols) |-> [col |-> cols[i], val |-> vals[i]]]
Index(series) == [i \in 1..Len(series) |-> series[i].col]
Values(series) == [i \in 1..Len(series) |-> series[i].val]
IndexSet(series) == {series[i].col : i \in 1..Len(series)}

\* floor(x * SCALE / s) without leaving 32 bits: long division in base 1000
\* (SCALE = 1000 * 1000).
DivScaled(x, s) ==
    LET a == x * 1000
        b == (a % s) * 1000
    IN  (a \div s) * 1000 + (b \div s)

\* Series.head(k)
HeadK(series, k) == SubSeq(series, 1, Min(k, Len(series)))

\* The orders of n items, n <= MaxCols, tabulated once.
PermTable ==
    [n \in 0..MaxCols |->
        {p \in [1..n -> 1..n] : \A i, j \in 1..n : i # j => p[i] # p[j]}]

IsNonIncreasing(series) ==
    \A i \in 1..(Len(series) - 1) : series[i].val >= series[i + 1].val

\* Series.sort_values(ascending=False) with the default kind="quicksort": the
\* values come out non-increasing; pandas documents that only "mergesort" and
\* "stable" keep the order of equal values, so every order of ties is a
\* possible outcome.  The result is the set of the possible sorted series.
SortValuesDesc(series) ==
    {q \in {[i \in 1..Len(series) |-> series[p[i]]] : p \in PermTable[Len(series)]} :
        IsNonIncreasing(q)}

\* ------------------------------------------------------------- _solve_mv
\* The constraints [w >= 0, sum(w) == 1, w <= max_weight] have a solution.
Feasible(n, maxw) == n * maxw >= SCALE

\* Exact solutions on the grid {0, 1/2, 1}.
BaseSolutions(n, maxw) ==
    {b \in [1..n -> {0, Half, SCALE}] :
        /\ SumSeq(b) = SCALE
        /\ \A i \in 1..n : b[i] <= maxw}

\* The residual a first-order solver leaves on an entry: the tolerance either
\* way, or a residue the size of the drop threshold.
NoiseVals == {-SolverEps, DropThreshold, SolverEps}

\* A solver output satisfies each constraint to within SolverEps.
WithinTolerance(w, maxw) ==
    /\ \A i \in 1..Len(w) : w[i] >= -SolverEps /\ w[i] <= maxw + SolverEps
    /\ SumSeq(w) >= SCALE - SolverEps
    /\ SumSeq(w) <= SCALE + SolverEps

\* The values prob.solve(solver=cp.SCS) may leave in w.value for a feasible
\* problem: the objective only picks among them, so any of them is possible.
SolverOutputs(n, maxw) ==
    {w \in {[i \in 1..n |-> b[i] + e[i]] :
                b \in BaseSolutions(n, maxw), e \in [1..n -> NoiseVals]} :
        WithinTolerance(w, maxw)}

\* Mutant of Clip: the solver output is not clipped.
Clip_None(w) == w

\* np.clip(w.value, 0.0, None)
Clip(w) == [i \in 1..Len(w) |-> IF w[i] < 0 THEN 0 ELSE w[i]]

\* weights / weights.sum()
Normalize(w) == [i \in 1..Len(w) |-> DivScaled(w[i], SumSeq(w))]

Raised(kind) == [status |-> kind, series |-> <<>>]
Returned(series) == [status |-> "ok", series |-> series]

\* Lines 28-32: clip, the non-positive check, renormalize.
PostSolve(cols, v) ==
    LET weights == Clip(v) IN
    IF SumSeq(weights) <= 0
    THEN Raised("RuntimeError")
    ELSE Returned(SeriesOf(cols, Normalize(weights)))

\* Mutant of SolveMV: no early return for n == 0, so the empty problem goes to
\* the solver, which has nothing to return.
SolveMV_NoEmptyCase(cols, maxw) ==
    IF ~Feasible(Len(cols), maxw) THEN {Raised("RuntimeError")}
    ELSE {PostSolve(cols, v) : v \in SolverOutputs(Len(cols), maxw)}

\* _solve_mv over the columns `cols`: the set of its possible outcomes.
SolveMV(cols, maxw) ==
    LET n == Len(cols) IN
    IF n = 0 THEN {Returned(<<>>)}
    ELSE IF ~Feasible(n, maxw) THEN {Raised("RuntimeError")}
    ELSE {PostSolve(cols, v) : v \in SolverOutputs(n, maxw)}

\* ------------------------------------------------ pragmatic_cardinality_mv
\* Mutant of Renormalize: the kept weights are returned as they are.
Renormalize_NoDivide(series) == series

\* nonzero / nonzero.sum()
Renormalize(series) ==
    [i \in 1..Len(series) |->
        [col |-> series[i].col,
         val |-> DivScaled(series[i].val, SumSeq(Values(series)))]]

\* stage2[stage2 > 1e-6]
DropSmall(series) == SelectSeq(series, LAMBDA e : e.val > DropThreshold)

\* Lines 45-47: drop the small weights, keep the max_positions largest,
\* renormalize.  The set of the possible results (one per order of ties).
PostProcess(s2, k) ==
    {Renormalize(HeadK(sorted, k)) : sorted \in SortValuesDesc(DropSmall(s2))}

\* Mutant of SelectLargest: head(max_positions) without the sort.
SelectLargest_Unsorted(s1, k) == {HeadK(s1, k)}

\* stage1.sort_values(ascending=False).head(max_positions)
SelectLargest(s1, k) == {HeadK(sorted, k) : sorted \in SortValuesDesc(s1)}

\* ------------------------------------------------------------ selection.py
\* A matrix entry: <<r>> for a monthly return of r percent, <<>> for a missing
\* value.
NaN == <<>>
ReturnVals == {NaN, <<-50>>, <<100>>}
Periods == 1..2

\* A return matrix: a sequence of columns [col |-> asset, rets |-> per period].
MatricesOver(cols) ==
    {[i \in 1..Len(cols) |-> [col |-> cols[i], rets |-> m[i]]] :
        m \in [1..Len(cols) -> [Periods -> ReturnVals]]}

\* (1.0 + r) of one entry in percent; DataFrame.prod skips a missing value,
\* which leaves the product as a factor 1.0 would.
Growth(r) == IF r = NaN THEN 100 ELSE 100 + r[1]

RECURSIVE ProdOver(_, _)
ProdOver(rets, ps) ==
    IF ps = {} THEN 1
    ELSE LET t == CHOOSE x \in ps : TRUE
         IN  Growth(rets[t]) * ProdOver(rets, ps \ {t})

\* The 1.0 of `prod - 1.0`, in the unit of a product over all periods.
RECURSIVE UnitProd(_)
UnitProd(ps) ==
    IF ps = {} THEN 1 ELSE 100 * UnitProd(ps \ {CHOOSE x \in ps : TRUE})

\* trailing_compounded_returns: (1.0 + df).prod(axis=0) - 1.0
TrailingCompoundedReturns(df) ==
    [i \in 1..Len(df) |->
        [col |-> df[i].col, val |-> ProdOver(df[i].rets, Periods) - UnitProd(Periods)]]

\* Mutant of SelectTopN: sort_values() without ascending=False.
SelectTopN_Ascending(df, n) ==
    {HeadK([i \in 1..Len(ranked) |-> ranked[Len(ranked) + 1 - i]], n) :
        ranked \in SortValuesDesc(TrailingCompoundedReturns(df))}

\* select_top_n: the set of the possible results (one per order of ties).
SelectTopN(df, n) ==
    {HeadK(ranked, n) : ranked \in SortValuesDesc(TrailingCompoundedReturns(df))}

\* ------------------------------------------------------------ rebalance.py
\* rets.count(): the non-missing returns of one column
Count(column) == Cardinality({t \in Periods : column.rets[t] # NaN})

\* Mutant of Eligible: no minimum is applied, only the all-missing columns go.
Eligible_NoMinimum(df, minobs) == SelectSeq(df, LAMBDA c : Count(c) > 0)

\* Lines 32-33: rets[eligible] with eligible the columns whose count is
\* >= min_observations, then dropna(axis=1, how="all").
Eligible(df, minobs) ==
    SelectSeq(SelectSeq(df, LAMBDA c : Count(c) >= minobs), LAMBDA c : Count(c) > 0)

\* Line 36: the rows of rets[top.index].dropna(how="all"): the periods in which
\* a selected column has a return.  They are the rows of port_rets (line 44),
\* whose sum over the columns skips missing values.
TopRetsRows(df, cols) ==
    {t \in Periods : \E i \in 1..Len(df) : df[i].col \in cols /\ df[i].rets[t] # NaN}

\* The monthly return matrices the Return Transform hands over for a universe
\* of n assets: per asset a full history, a late listing (a missing first
\* return) or no valid return at all.
Histories == {[t \in Periods |-> <<100>>],
              [t \in Periods |-> IF t = 1 THEN NaN ELSE <<100>>],
              [t \in Periods |-> NaN]}
MonthlyReturns(n) ==
    {[i \in 1..n |-> [col |-> i, rets |-> h[i]]] : h \in [1..n -> Histories]}

\* run_ff5_regression, lines 28-33: the inner join of port_rets with the factor
\* table has n_obs rows; OLS on an empty sample raises.
RegressionRaises(rows, ff5rows) == rows \cap ff5rows = {}

ResultFiles == {"weights", "report"}

\* ------------------------------------------- optimizer.py: portfolio_stats
\* A float is (num/den) * 10^exp, or not-a-number; num/den lies between 1/10
\* and 10 in magnitude, or is 0.  An entry of a return series is <<m, e>> for
\* m * 10^e, or NaN for a missing value.
MaxFloatExp == 308    \* the largest decimal exponent of a double (about 1.8e308)
BigExp == 30          \* decimal exponent of a finite return too large to compound
MaxObs == 3           \* most observations of a return series
FNaN == [nan |-> TRUE, num |-> 0, den |-> 1, exp |-> 0]
Float(num, den, exp) == [nan |-> FALSE, num |-> num, den |-> den, exp |-> exp]
StatVals == {NaN, <<-1, 0>>, <<0, 0>>, <<1, 0>>, <<1, BigExp>>}
StatSeries == UNION {[1..n -> StatVals] : n \in 0..MaxObs}

Abs(x) == IF x < 0 THEN -x ELSE x
\* mean() and std() skip the missing values
Valid(series) == SelectSeq(series, LAMBDA x : x # NaN)
TopExp(v) == IF \E i \in 1..Len(v) : v[i][2] = BigExp THEN BigExp ELSE 0
\* In a sum a double keeps 16 digits: next to an entry of exponent BigExp the
\* entries of exponent 0 are absorbed.
Mantissas(v) == [i \in 1..Len(v) |-> IF v[i][2] = TopExp(v) THEN v[i][1] ELSE 0]
Squares(m) == [i \in 1..Len(m) |-> m[i] * m[i]]

\* Line 52: float(monthly_returns.mean()); the mean of no value is nan.
Mean(series) ==
    LET v == Valid(series)
    IN  IF Len(v) = 0 THEN FNaN
        ELSE Float(SumSeq(Mantissas(v)), Len(v), TopExp(v))

\* A volatility is sqrt(sq_num/sq_den) * 10^exp, or not-a-number.
VNaN == [nan |-> TRUE, sq_num |-> 0, sq_den |-> 1, exp |-> 0]
\* Line 53: float(monthly_returns.std(ddof=1)): with fewer than two values the
\* sample standard deviation is nan.
Std(series) ==
    LET v == Valid(series)
        n == Len(v)
        m == Mantissas(v)
    IN  IF n <= 1 THEN VNaN
        ELSE [nan |-> FALSE,
              sq_num |-> n * SumSeq(Squares(m)) - SumSeq(m) * SumSeq(m),
              sq_den |-> n * (n - 1),
              exp |-> TopExp(v)]

\* `vol > 0`: false for nan
Positive(vol) == ~vol.nan /\ vol.sq_num > 0

\* a / b on floats: the quotient is kept as its two operands.  Dividing by
\* zero raises ZeroDivisionError.
Divide(a, b) ==
    IF ~b.nan /\ b.sq_num = 0
    THEN [err |-> "ZeroDivisionError", val |-> [nan |-> TRUE, of |-> a, by |-> b]]
    ELSE [err |-> "none", val |-> [nan |-> a.nan \/ b.nan, of |-> a, by |-> b]]

\* Lines 54 and 57: mean / vol if vol > 0 else float("nan")
Sharpe(mean, vol) ==
    IF Positive(vol)
    THEN Divide(mean, vol)
    ELSE [err |-> "none", val |-> [nan |-> TRUE, of |-> mean, by |-> vol]]

\* 1 + x: next to a float of exponent BigExp the 1 is absorbed.
Add1(x) == IF x.exp = 0 THEN Float(x.den + x.num, x.den, 0) ELSE x
\* floor(log10 |x|) of a float that is not 0
DecExp(x) == IF Abs(x.num) >= x.den THEN x.exp ELSE x.exp - 1
\* x ** 12 leaves the range of a double: Python raises OverflowError
Pow12Overflows(x) == x.num # 0 /\ 12 * DecExp(x) > MaxFloatExp

\* Line 55: (1 + mean_m) ** 12 - 1, kept as its base.
Compound12(mean) ==
    IF mean.nan THEN [err |-> "none", val |-> [nan |-> TRUE, base |-> mean, pow |-> 12]]
    ELSE IF Pow12Overflows(Add1(mean))
         THEN [err |-> "OverflowError", val |-> [nan |-> TRUE, base |-> mean, pow |-> 12]]
         ELSE [err |-> "none", val |-> [nan |-> FALSE, base |-> Add1(mean), pow |-> 12]]

\* Line 56: vol_m * np.sqrt(12)
TimesSqrt12(vol) == [vol EXCEPT !.sq_num = 12 * @]

\* ----------------------------------------------------------------- dates.py
\* A date is a record [year, month, day]; dates are compared by their day
\* number, counted from January 1 of FirstYear.
FirstYear == 2021     \* the calendar starts here; tests/test_dates.py asks about 2022 and 2023
NumYears == 2         \* the dates asked about lie in the NumYears years after FirstYear
WindowDays == 14      \* pd.Timedelta(days=14), the schedule window
MaxTries == 8         \* range(8), the quarters most_recent_rebalance_date looks at

LastYear == FirstYear + NumYears
IsLeap(y) == y % 4 = 0 /\ (y % 100 # 0 \/ y % 400 = 0)
DaysInMonth(y, m) ==
    IF m = 2 THEN (IF IsLeap(y) THEN 29 ELSE 28)
    ELSE IF m \in {4, 6, 9, 11} THEN 30 ELSE 31
RECURSIVE DaysBeforeMonth(_, _)
DaysBeforeMonth(y, m) ==
    IF m = 1 THEN 0 ELSE DaysBeforeMonth(y, m - 1) + DaysInMonth(y, m - 1)
RECURSIVE DaysBeforeYear(_)
DaysBeforeYear(y) ==
    IF y = FirstYear THEN 0
    ELSE IF y < FirstYear THEN DaysBeforeYear(y + 1) - DaysBeforeMonth(y, 13)
    ELSE DaysBeforeYear(y - 1) + DaysBeforeMonth(y - 1, 13)

Date(y, m, d) == [year |-> y, month |-> m, day |-> d]
\* the day number of the first day of each month
MonthStart ==
    [y \in (FirstYear - 1)..(LastYear + 1) |->
        [m \in 1..12 |-> DaysBeforeYear(y) + DaysBeforeMonth(y, m)]]
Ordinal(dt) == MonthStart[dt.year][dt.month] + dt.day - 1
AllDates ==
    {dt \in [year : FirstYear..LastYear, month : 1..12, day : 1..31] :
        dt.day <= DaysInMonth(dt.year, dt.month)}
\* the dates from month m of year y on, in order
RECURSIVE DatesFrom(_, _)
DatesFrom(y, m) ==
    IF y > LastYear THEN <<>>
    ELSE [d \in 1..DaysInMonth(y, m) |-> Date(y, m, d)]
         \o (IF m = 12 THEN DatesFrom(y + 1, 1) ELSE DatesFrom(y, m + 1))
\* the date of each day number
DateAt ==
    LET all == DatesFrom(FirstYear, 1)
    IN  [o \in 0..(Len(all) - 1) |-> all[o + 1]]
\* the dates a caller asks about
AskDates == {dt \in AllDates : dt.year > FirstYear}

\* Lines 9-11: quarter_start(asof)
QuarterStart(asof) ==
    LET q_month == ((asof.month - 1) \div 3) * 3 + 1
    IN  Date(asof.year, q_month, 1)

\* Lines 14-16: quarter_label(dt), the pair behind f"{dt.year}Q{q}"
QuarterLabel(dt) ==
    LET q == ((dt.month - 1) \div 3) + 1
    IN  <<dt.year, q>>

\* The exchange calendar mcal.get_calendar gives: the weekday of the first day
\* (0 is Monday) fixes the weekends, New Year's Day is a holiday (kept on the
\* Monday when it falls on a Sunday), and in the quarters of `closed` the
\* exchange stays shut for the whole schedule window.
AllLabels == {<<y, q>> : y \in FirstYear..LastYear, q \in 1..4}
Calendars ==
    {[weekday0 |-> w, closed |-> c] :
        w \in 0..6, c \in {{}} \cup {{l} : l \in AllLabels}}
Weekday(cal, dt) == (cal.weekday0 + Ordinal(dt)) % 7
IsHoliday(cal, dt) ==
    /\ dt.month = 1
    /\ \/ dt.day = 1
       \/ dt.day = 2 /\ Weekday(cal, dt) = 0
IsSession(cal, dt) ==
    /\ Weekday(cal, dt) < 5
    /\ ~IsHoliday(cal, dt)
    /\ QuarterLabel(dt) \notin cal.closed

\* Line 21: cal.schedule(start_date=start, end_date=start + 14 days), the
\* sessions of the window as day numbers
Schedule(cal, start) ==
    {o \in Ordinal(start)..(Ordinal(start) + WindowDays) : IsSession(cal, DateAt[o])}
SetMin(S) == CHOOSE x \in S : \A y \in S : x <= y

\* Mutant of FirstTradingDayOfQuarter: the window starts at asof, not at the
\* quarter start.
FirstTradingDay_FromAsof(cal, asof) ==
    LET sched == Schedule(cal, asof)
    IN  IF sched = {}
        THEN [status |-> "ValueError", date |-> asof]
        ELSE [status |-> "ok", date |-> DateAt[SetMin(sched)]]

\* Lines 19-26: first_trading_day_of_quarter(asof, calendar)
FirstTradingDayOfQuarter(cal, asof) ==
    LET start == QuarterStart(asof)
        sched == Schedule(cal, start)
    IN  IF sched = {}
        THEN [status |-> "ValueError", date |-> asof]
        ELSE [status |-> "ok", date |-> DateAt[SetMin(sched)]]

\* Mutant of PrevQuarterAsof: the year is not stepped back.
PrevQuarterAsof_SameYear(candidate_asof) ==
    LET m == ((candidate_asof.month - 1) \div 3) * 3 - 2
    IN  Date(candidate_asof.year, IF m <= 0 THEN m + 12 ELSE m, 1)

\* Lines 34-40: the first day of the quarter before candidate_asof's
PrevQuarterAsof(candidate_asof) ==
    LET m == ((candidate_asof.month - 1) \div 3) * 3 - 2
    IN  IF m <= 0
        THEN Date(candidate_asof.year - 1, m + 12, 1)
        ELSE Date(candidate_asof.year, m, 1)

\* Lines 31-41: the loop of most_recent_rebalance_date with `tries` rounds left
RECURSIVE RebalanceLoop(_, _, _, _)
RebalanceLoop(cal, today, candidate_asof, tries) ==
    IF tries = 0
    THEN [status |-> "ValueError", date |-> today]
    ELSE LET reb == FirstTradingDayOfQuarter(cal, candidate_asof)
         IN  IF reb.status # "ok" THEN reb
             ELSE IF Ordinal(reb.date) <= Ordinal(today) THEN reb
             ELSE RebalanceLoop(cal, today, PrevQuarterAsof(candidate_asof), tries - 1)

\* Lines 29-41: most_recent_rebalance_date(today, calendar)
MostRecentRebalanceDate(cal, today) == RebalanceLoop(cal, today, today, MaxTries)

\* ------------------------------------------------------------------ data.py
\* A price table is a sequence of rows [date, src]; src tells the rows read
\* from the cache ("cached") from the rows just downloaded ("new").  Dates are
\* day numbers.
MaxDay == 5           \* the days with prices are 1..MaxDay
BufferDays == 5       \* buffer_days

Days == 1..MaxDay
Max(a, b) == IF a >= b THEN a ELSE b
RECURSIVE TableOf(_, _)
TableOf(S, src) ==
    IF S = {} THEN <<>>
    ELSE LET m == SetMin(S)
         IN  <<[date |-> m, src |-> src]>> \o TableOf(S \ {m}, src)
TableDates(t) == {t[i].date : i \in 1..Len(t)}
IndexMin(t) == SetMin(TableDates(t))
IndexMax(t) == CHOOSE x \in TableDates(t) : \A y \in TableDates(t) : y <= x

\* Mutant of DropDuplicatedKeepLast: keep="first".
RECURSIVE KeepFirstFrom(_, _)
KeepFirstFrom(t, i) ==
    IF i > Len(t) THEN <<>>
    ELSE (IF \E j \in 1..(i - 1) : t[j].date = t[i].date THEN <<>> ELSE <<t[i]>>)
         \o KeepFirstFrom(t, i + 1)
DropDuplicated_KeepFirst(t) == KeepFirstFrom(t, 1)

\* combined[~combined.index.duplicated(keep="last")]
RECURSIVE KeepFrom(_, _)
KeepFrom(t, i) ==
    IF i > Len(t) THEN <<>>
    ELSE (IF \E j \in (i + 1)..Len(t) : t[j].date = t[i].date THEN <<>> ELSE <<t[i]>>)
         \o KeepFrom(t, i + 1)
DropDuplicatedKeepLast(t) == KeepFrom(t, 1)

\* sort_index(): the rows in ascending date order, equal dates in their order
RECURSIVE InsertRow(_, _)
InsertRow(sorted, r) ==
    IF sorted = <<>> THEN <<r>>
    ELSE IF Head(sorted).date <= r.date
         THEN <<Head(sorted)>> \o InsertRow(Tail(sorted), r)
         ELSE <<r>> \o sorted
RECURSIVE SortIndex(_)
SortIndex(t) ==
    IF t = <<>> THEN <<>> ELSE InsertRow(SortIndex(SubSeq(t, 1, Len(t) - 1)), t[Len(t)])

\* df.loc[lo:hi]
Loc(t, lo, hi) == SelectSeq(t, LAMBDA r : lo <= r.date /\ r.date <= hi)

\* _read_cache, lines 84-104: None (here the empty table) when the file is
\* absent, cannot be read or holds no row
ReadCache(file) == IF file.state = "table" THEN file.rows ELSE <<>>
\* _is_cache_fresh, lines 75-81
IsCacheFresh(file, fresh) == file.state # "absent" /\ fresh

\* Lines 194-210: the window to download
DownloadWindow(cached, start_d, end_d, force_refresh) ==
    IF cached # <<>> /\ ~force_refresh
    THEN LET cached_min == IndexMin(cached)
             cached_max == IndexMax(cached)
         IN  IF start_d >= cached_min /\ end_d <= cached_max
             THEN [lo |-> Max(cached_min, start_d - BufferDays),
                   hi |-> Min(cached_max, end_d + BufferDays)]
             ELSE [lo |-> Min(start_d, cached_min) - BufferDays,
                   hi |-> Max(end_d, cached_max) + BufferDays]
    ELSE [lo |-> start_d, hi |-> end_d]

\* _download_history_yfinance, lines 119-159: it raises, or returns the rows the
\* provider has in the window, sorted; there may be none.
Downloads(window) ==
    {[outcome |-> "raised", rows |-> <<>>]} \cup
    {[outcome |-> "returned", rows |-> TableOf(S, "new")] :
        S \in SUBSET {d \in Days : window.lo <= d /\ d <= window.hi}}

\* Lines 225-229: the cached rows merged with the new ones
Combine(cached, df_new) ==
    IF cached # <<>>
    THEN SortIndex(DropDuplicatedKeepLast(cached \o df_new))
    ELSE df_new

\* _write_cache, lines 107-116: the file is replaced, or the write fails, which
\* is logged and not raised
WriteCache(file, df) == {[state |-> "table", rows |-> df], file}

\* ------------------------------------------------------------------ state
VARIABLES
    opt_pc,               \* optimizer call: "idle", "call", "returned", "raised"
    columns,              \* the columns of `returns`
    max_weight,
    max_positions,
    stage1,
    selected,
    stage2,
    final,
    sel_pc,               \* ranker call: "idle", "call", "returned"
    monthly_returns_df,
    top_n,
    top,
    reb_pc,               \* run_rebalance: "idle" or the step it is at
    rets,                 \* monthly_returns(prices), line 31
    min_observations,
    port_rows,            \* the periods of port_rets
    failure,              \* what raised: "none", "load", "optimizer", "ff5", "regression"
    files,                \* the files of this quarter in results_dir
    attempts,             \* calls of the optimizer made by the run
    stats_pc,             \* portfolio_stats call: "idle", "call", "returned", "raised"
    monthly_returns,      \* the return series handed to portfolio_stats
    stats,                \* the dictionary portfolio_stats returns
    calendar,             \* the exchange calendar
    today,                \* the date asked about: asof / today / date.today()
    ftd_pc,               \* first_trading_day_of_quarter call: "idle", "call", "returned", "raised"
    first_day,            \* what first_trading_day_of_quarter returned
    mr_pc,                \* most_recent_rebalance_date call: "idle", "call", "returned", "raised"
    reb_date,             \* what most_recent_rebalance_date returned
    results_dir,          \* cfg.results_dir: the result files, as <<kind, label>>
    sched_log,            \* one record per invocation of schedule.main, oldest first
    cache,                \* the cache file of the symbol
    px_args,              \* the arguments of get_price_history and the freshness of the file
    px_pc,                \* get_price_history call: "idle", "call", "returned", "raised"
    px_download,          \* what the download did: "none", "raised" or "returned", and its rows
    px_result             \* the table get_price_history returned

optVars == <<opt_pc, columns, max_weight, max_positions, stage1, selected, stage2, final>>
selVars == <<sel_pc, monthly_returns_df, top_n, top>>
rebVars == <<reb_pc, rets, min_observations, port_rows, failure, files, attempts>>
statsVars == <<stats_pc, monthly_returns, stats>>
datesVars == <<calendar, today, ftd_pc, first_day, mr_pc, reb_date>>
schedVars == <<results_dir, sched_log>>
cacheVars == <<cache, px_args, px_pc, px_download, px_result>>
extVars == <<datesVars, schedVars, cacheVars>>
vars == <<optVars, selVars, rebVars, statsVars, extVars>>

ColumnLists == {[i \in 1..n |-> i] : n \in 0..MaxCols}

OptIdle ==
    /\ opt_pc = "idle" /\ columns = <<>> /\ max_weight = SCALE /\ max_positions = 1
    /\ stage1 = <<>> /\ selected = <<>> /\ stage2 = <<>> /\ final = <<>>

SelIdle ==
    /\ sel_pc = "idle" /\ monthly_returns_df = <<>> /\ top_n = 1 /\ top = <<>>

RebIdle ==
    /\ reb_pc = "idle" /\ rets = <<>> /\ min_observations = 1 /\ port_rows = {}
    /\ failure = "none" /\ files = {} /\ attempts = 0

DatesIdle ==
    /\ calendar = [weekday0 |-> 0, closed |-> {}] /\ today = Date(FirstYear, 1, 1)
    /\ ftd_pc = "idle" /\ first_day = <<>> /\ mr_pc = "idle" /\ reb_date = <<>>

SchedIdle == results_dir = {} /\ sched_log = <<>>

CacheIdle ==
    /\ cache = [state |-> "absent", rows |-> <<>>]
    /\ px_args = [start |-> 1, end |-> 1, force_refresh |-> FALSE, fresh |-> FALSE]
    /\ px_pc = "idle"
    /\ px_download = [outcome |-> "none", rows |-> <<>>]
    /\ px_result = <<>>

ExtIdle == DatesIdle /\ SchedIdle /\ CacheIdle

StatsIdle ==
    /\ stats_pc = "idle" /\ monthly_returns = <<>> /\ stats = <<>>

\* A call of pragmatic_cardinality_mv with a valid input.
OptStart ==
    /\ opt_pc = "call"
    /\ columns \in ColumnLists
    /\ max_weight \in MaxWeights
    /\ max_positions \in 1..MaxPositions
    /\ stage1 = <<>> /\ selected = <<>> /\ stage2 = <<>> /\ final = <<>>

\* A call of select_top_n with a valid input.
SelStart ==
    /\ sel_pc = "call"
    /\ monthly_returns_df \in UNION {MatricesOver(cols) : cols \in ColumnLists}
    /\ top_n \in 1..MaxTopN
    /\ top = <<>>

\* How a call of pragmatic_cardinality_mv ends.  After a direct call the locals
\* stage1, selected and stage2 stay readable, for the claims about them; inside
\* run_rebalance they end with the call and only the returned vector is kept.
OptEnds(pc, s1, sel, s2, fin) ==
    /\ opt_pc' = pc
    /\ final' = fin
    /\ IF reb_pc = "idle"
       THEN stage1' = s1 /\ selected' = sel /\ stage2' = s2
       ELSE stage1' = <<>> /\ selected' = <<>> /\ stage2' = <<>>

\* Mutant of Stage2: the Stage-2 solve is not given max_weight (a cap of 1.0).
Stage2_NoCap(s1, sel) ==
    \E out \in SolveMV(Index(sel), SCALE) :
        IF out.status # "ok"
        THEN OptEnds("raised", s1, sel, <<>>, <<>>)
        ELSE \E fin \in PostProcess(out.series, max_positions) :
                 OptEnds("returned", s1, sel, out.series, fin)

\* Lines 43-48: the Stage-2 solve over the selected columns and the
\* post-processing.
Stage2(s1, sel) ==
    \E out \in SolveMV(Index(sel), max_weight) :
        IF out.status # "ok"
        THEN OptEnds("raised", s1, sel, <<>>, <<>>)
        ELSE \E fin \in PostProcess(out.series, max_positions) :
                 OptEnds("returned", s1, sel, out.series, fin)

\* pragmatic_cardinality_mv(returns, lambda, max_weight, max_positions), lines
\* 41-48.  The means, covariances and risk_aversion_lambda only steer which
\* feasible point the solver reports, so they are not part of the state.
PragmaticCardinalityMV ==
    \E out \in SolveMV(columns, max_weight) :
        IF out.status # "ok"
        THEN OptEnds("raised", <<>>, <<>>, <<>>, <<>>)
        ELSE \E sel \in SelectLargest(out.series, max_positions) :
                 Stage2(out.series, sel)

OptCall ==
    /\ opt_pc = "call"
    /\ PragmaticCardinalityMV
    /\ UNCHANGED <<columns, max_weight, max_positions>>
    /\ UNCHANGED <<selVars, rebVars, statsVars, extVars>>

SelCall ==
    /\ sel_pc = "call"
    /\ \E res \in SelectTopN(monthly_returns_df, top_n) : top' = res
    /\ sel_pc' = "returned"
    /\ UNCHANGED <<monthly_returns_df, top_n>>
    /\ UNCHANGED <<optVars, rebVars, statsVars, extVars>>

\* The optimizer alone.
InitOpt == OptStart /\ SelIdle /\ RebIdle /\ StatsIdle /\ ExtIdle
NextOpt == OptCall
SpecOpt == InitOpt /\ [][NextOpt]_vars

\* The ranker alone.
InitSel == SelStart /\ OptIdle /\ RebIdle /\ StatsIdle /\ ExtIdle
NextSel == SelCall
SpecSel == InitSel /\ [][NextSel]_vars

\* The core on one matrix: select_top_n and pragmatic_cardinality_mv are each
\* called once on the same (possibly empty) return matrix.
InitCore ==
    /\ \E n \in 0..MaxCoreCols : columns = [i \in 1..n |-> i]
    /\ monthly_returns_df \in MatricesOver(columns)
    /\ opt_pc = "call" /\ sel_pc = "call"
    /\ max_weight \in MaxWeights
    /\ max_positions \in 1..MaxPositions
    /\ top_n \in 1..MaxTopN
    /\ stage1 = <<>> /\ selected = <<>> /\ stage2 = <<>> /\ final = <<>> /\ top = <<>>
    /\ RebIdle /\ StatsIdle /\ ExtIdle
NextCore == OptCall \/ SelCall
SpecCore == InitCore /\ [][NextCore]_vars

\* ---------------------------------------------------------- portfolio_stats
\* A call of portfolio_stats with a return series.
StatsStart ==
    /\ stats_pc = "call" /\ monthly_returns \in StatSeries /\ stats = <<>>

\* portfolio_stats(monthly_returns), lines 52-65: an exception of one of the
\* float operations ends the call.
PortfolioStats ==
    LET mean_m == Mean(monthly_returns)
        vol_m == Std(monthly_returns)
        sharpe_m == Sharpe(mean_m, vol_m)
        mean_a == Compound12(mean_m)
        vol_a == TimesSqrt12(vol_m)
        sharpe_a == Sharpe(mean_a.val, vol_a)
    IN  IF sharpe_m.err # "none" \/ mean_a.err # "none" \/ sharpe_a.err # "none"
        THEN stats_pc' = "raised" /\ UNCHANGED stats
        ELSE /\ stats_pc' = "returned"
             /\ stats' = [mean_monthly |-> mean_m,
                          vol_monthly |-> vol_m,
                          sharpe_monthly |-> sharpe_m.val,
                          mean_annual |-> mean_a.val,
                          vol_annual |-> vol_a,
                          sharpe_annual |-> sharpe_a.val]

StatsCall ==
    /\ stats_pc = "call"
    /\ PortfolioStats
    /\ UNCHANGED monthly_returns
    /\ UNCHANGED <<optVars, selVars, rebVars, extVars>>

InitStats == StatsStart /\ OptIdle /\ SelIdle /\ RebIdle /\ ExtIdle
NextStats == StatsCall
SpecStats == InitStats /\ [][NextStats]_vars

\* ------------------------------------------------------------ dates calls
\* first_trading_day_of_quarter(today) and most_recent_rebalance_date(today)
\* are each called once, under one calendar.
DatesStart ==
    /\ calendar \in Calendars
    /\ today \in AskDates
    /\ ftd_pc = "call" /\ first_day = <<>>
    /\ mr_pc = "call" /\ reb_date = <<>>

FtdCall ==
    /\ ftd_pc = "call"
    /\ LET res == FirstTradingDayOfQuarter(calendar, today)
       IN  IF res.status = "ok"
           THEN ftd_pc' = "returned" /\ first_day' = res.date
           ELSE ftd_pc' = "raised" /\ UNCHANGED first_day
    /\ UNCHANGED <<calendar, today, mr_pc, reb_date>>
    /\ UNCHANGED <<optVars, selVars, rebVars, statsVars, schedVars, cacheVars>>

MostRecentCall ==
    /\ mr_pc = "call"
    /\ LET res == MostRecentRebalanceDate(calendar, today)
       IN  IF res.status = "ok"
           THEN mr_pc' = "returned" /\ reb_date' = res.date
           ELSE mr_pc' = "raised" /\ UNCHANGED reb_date
    /\ UNCHANGED <<calendar, today, ftd_pc, first_day>>
    /\ UNCHANGED <<optVars, selVars, rebVars, statsVars, schedVars, cacheVars>>

InitDates == DatesStart /\ OptIdle /\ SelIdle /\ RebIdle /\ StatsIdle /\ SchedIdle /\ CacheIdle
NextDates == FtdCall \/ MostRecentCall
SpecDates == InitDates /\ [][NextDates]_vars

\* ------------------------------------------------------------- schedule.py
MaxInvocations == 2   \* most invocations of schedule.main in one behaviour
SchedDays == 5        \* the invocations fall on the first SchedDays days of a quarter

WeightsFile(qlabel) == <<"weights", qlabel>>
ReportFile(qlabel) == <<"report", qlabel>>

\* Mutant of AlreadyExists: the weights file is never found.
AlreadyExists_Never(dir, qlabel) == FALSE

\* schedule.py line 16: weight_file.exists()
AlreadyExists(dir, qlabel) == WeightsFile(qlabel) \in dir

\* run_rebalance(asof), rebalance.py lines 19-92, as the scheduler sees it: the
\* files it leaves in results_dir.  The run either raises before its first write
\* (the steps of SpecReb up to the regression) or writes the weights file and
\* the report of the quarter of first_trading_day_of_quarter(asof).
RunRebalance(dir, cal, asof) ==
    LET rebalance_date == FirstTradingDayOfQuarter(cal, asof)
    IN  IF rebalance_date.status # "ok"
        THEN {[outcome |-> "failed", after |-> dir]}
        ELSE LET qlabel == QuarterLabel(rebalance_date.date)
             IN  {[outcome |-> "failed", after |-> dir],
                  [outcome |-> "written",
                   after |-> dir \cup {WeightsFile(qlabel), ReportFile(qlabel)}]}

LogEntry(day, qlabel, outcome, after) ==
    [today |-> day, label |-> qlabel, outcome |-> outcome,
     before |-> results_dir, after |-> after]

\* schedule.main(), lines 12-21, on the day `today`.
SchedMain ==
    /\ Len(sched_log) < MaxInvocations
    /\ LET rebalance_date == MostRecentRebalanceDate(calendar, today)
       IN  IF rebalance_date.status # "ok"
           THEN /\ sched_log' = Append(sched_log, LogEntry(today, <<>>, "raised", results_dir))
                /\ UNCHANGED results_dir
           ELSE LET qlabel == QuarterLabel(rebalance_date.date)
                IN  IF AlreadyExists(results_dir, qlabel)
                    THEN /\ sched_log' =
                               Append(sched_log, LogEntry(today, qlabel, "exists", results_dir))
                         /\ UNCHANGED results_dir
                    ELSE \E run \in RunRebalance(results_dir, calendar, rebalance_date.date) :
                             /\ results_dir' = run.after
                             /\ sched_log' =
                                   Append(sched_log, LogEntry(today, qlabel, run.outcome, run.after))
    /\ UNCHANGED <<calendar, today, ftd_pc, first_day, mr_pc, reb_date>>
    /\ UNCHANGED <<optVars, selVars, rebVars, statsVars, cacheVars>>

\* The next day begins.
DayPasses ==
    /\ today.day < SchedDays
    /\ today' = DateAt[Ordinal(today) + 1]
    /\ UNCHANGED <<calendar, ftd_pc, first_day, mr_pc, reb_date, schedVars>>
    /\ UNCHANGED <<optVars, selVars, rebVars, statsVars, cacheVars>>

\* The scheduler is started on the first day of a quarter; the results of the
\* quarter before are there or not.
InitSched ==
    /\ today \in {dt \in AskDates : dt.day = 1 /\ dt.month \in {1, 4, 7, 10}}
    /\ calendar \in {c \in Calendars : c.closed \subseteq {QuarterLabel(today)}}
    /\ LET prev == QuarterLabel(PrevQuarterAsof(today))
       IN  results_dir \in {{}, {WeightsFile(prev), ReportFile(prev)}}
    /\ sched_log = <<>>
    /\ ftd_pc = "idle" /\ first_day = <<>> /\ mr_pc = "idle" /\ reb_date = <<>>
    /\ OptIdle /\ SelIdle /\ RebIdle /\ StatsIdle /\ CacheIdle
NextSched == SchedMain \/ DayPasses
SpecSched == InitSched /\ [][NextSched]_vars

\* ------------------------------------------------------- get_price_history
\* A call of get_price_history for one symbol: the cache file is absent,
\* unreadable or holds the rows an earlier call wrote.
PxStart ==
    /\ cache \in {[state |-> "absent", rows |-> <<>>], [state |-> "unreadable", rows |-> <<>>]}
                 \cup {[state |-> "table", rows |-> TableOf(S, "cached")] :
                          S \in SUBSET Days \ {{}}}
    /\ px_args \in [start : Days, end : Days, force_refresh : BOOLEAN, fresh : BOOLEAN]
    /\ px_pc = "call"
    /\ px_download = [outcome |-> "none", rows |-> <<>>]
    /\ px_result = <<>>

PxEnds(pc, download, file, result) ==
    /\ px_pc' = pc
    /\ px_download' = download
    /\ cache' = file
    /\ px_result' = result

\* get_price_history(symbol, start, end, force_refresh=...), lines 162-236
GetPriceHistory ==
    LET start_d == px_args.start
        end_d == px_args.end
        cached == ReadCache(cache)
        none == [outcome |-> "none", rows |-> <<>>]
    IN  IF end_d < start_d
        THEN PxEnds("raised", none, cache, <<>>)
        ELSE IF /\ ~px_args.force_refresh /\ cached # <<>>
                /\ IsCacheFresh(cache, px_args.fresh)
                /\ IndexMin(cached) <= start_d /\ IndexMax(cached) >= end_d
        THEN PxEnds("returned", none, cache, Loc(cached, start_d, end_d))
        ELSE \E dl \in Downloads(DownloadWindow(cached, start_d, end_d, px_args.force_refresh)) :
                 IF dl.outcome = "raised" \/ dl.rows = <<>>
                 THEN PxEnds("returned", dl, cache, <<>>)
                 ELSE LET combined == Combine(cached, dl.rows)
                      IN  \E file \in WriteCache(cache, combined) :
                              PxEnds("returned", dl, file, Loc(combined, start_d, end_d))

PxCall ==
    /\ px_pc = "call"
    /\ GetPriceHistory
    /\ UNCHANGED px_args
    /\ UNCHANGED <<optVars, selVars, rebVars, statsVars, datesVars, schedVars>>

InitCache == PxStart /\ OptIdle /\ SelIdle /\ RebIdle /\ StatsIdle /\ DatesIdle /\ SchedIdle
NextCache == PxCall
SpecCache == InitCache /\ [][NextCache]_vars

\* ---------------------------------------------------------- run_rebalance
\* run_rebalance(asof) with a valid configuration and an empty results_dir.
InitReb ==
    /\ reb_pc = "load"
    /\ max_weight \in MaxWeights
    /\ max_positions \in 1..MaxPositions
    /\ top_n \in 1..MaxTopN
    /\ min_observations \in 1..MaxMinObs
    /\ rets = <<>> /\ port_rows = {} /\ failure = "none" /\ files = {} /\ attempts = 0
    /\ opt_pc = "idle" /\ columns = <<>>
    /\ stage1 = <<>> /\ selected = <<>> /\ stage2 = <<>> /\ final = <<>>
    /\ sel_pc = "idle" /\ monthly_returns_df = <<>> /\ top = <<>>
    /\ StatsIdle /\ ExtIdle

RebRaise(kind) == reb_pc' = "raised" /\ failure' = kind

\* Lines 20-31: the configuration, the rebalance date, the universe, the prices
\* and their monthly returns.  The universe file or the calendar may raise.
RebLoad ==
    /\ reb_pc = "load"
    /\ \/ /\ RebRaise("load")
          /\ UNCHANGED rets
       \/ \E n \in 0..MaxUniverse : \E m \in MonthlyReturns(n) :
              /\ rets' = m
              /\ reb_pc' = "filter"
              /\ UNCHANGED failure
    /\ UNCHANGED <<min_observations, port_rows, files, attempts, optVars, selVars, statsVars, extVars>>

\* Lines 32-33: the assets with too few observations are left out.
RebFilter ==
    /\ reb_pc = "filter"
    /\ monthly_returns_df' = Eligible(rets, min_observations)
    /\ reb_pc' = "select"
    /\ UNCHANGED <<rets, min_observations, port_rows, failure, files, attempts>>
    /\ UNCHANGED <<sel_pc, top_n, top, optVars, statsVars, extVars>>

\* Lines 35-36: top = select_top_n(rets, cfg.top_n); top_rets = rets[top.index].
RebSelect ==
    /\ reb_pc = "select"
    /\ \E res \in SelectTopN(monthly_returns_df, top_n) :
        /\ top' = res
        /\ columns' = Index(res)
        /\ port_rows' = TopRetsRows(monthly_returns_df, IndexSet(res))
    /\ sel_pc' = "returned"
    /\ opt_pc' = "call"
    /\ reb_pc' = "optimize"
    /\ UNCHANGED <<rets, min_observations, failure, files, attempts>>
    /\ UNCHANGED <<monthly_returns_df, top_n>>
    /\ UNCHANGED <<max_weight, max_positions, stage1, selected, stage2, final, statsVars, extVars>>

\* Lines 37-42: weights = pragmatic_cardinality_mv(top_rets, ...).
RebOptimize ==
    /\ reb_pc = "optimize"
    /\ PragmaticCardinalityMV
    /\ attempts' = attempts + 1
    /\ IF opt_pc' = "raised"
       THEN RebRaise("optimizer")
       ELSE reb_pc' = "regress" /\ UNCHANGED failure
    /\ UNCHANGED <<rets, min_observations, port_rows, files>>
    /\ UNCHANGED <<columns, max_weight, max_positions, selVars, statsVars, extVars>>

\* Mutant of RebRegress: the weights file is written before the regression.
RebRegress_WritesFirst ==
    /\ reb_pc = "regress"
    /\ files' = files \cup {"weights"}
    /\ \/ RebRaise("ff5")
       \/ \E ff5rows \in SUBSET Periods :
              IF RegressionRaises(port_rows, ff5rows)
              THEN RebRaise("regression")
              ELSE reb_pc' = "write_weights" /\ UNCHANGED failure
    /\ UNCHANGED <<rets, min_observations, port_rows, attempts, optVars, selVars, statsVars, extVars>>

\* Lines 44-48: port_rets, portfolio_stats, load_ff5_monthly (which may raise
\* when the factor table has to be downloaded) and run_ff5_regression.
RebRegress ==
    /\ reb_pc = "regress"
    /\ \/ RebRaise("ff5")
       \/ \E ff5rows \in SUBSET Periods :
              IF RegressionRaises(port_rows, ff5rows)
              THEN RebRaise("regression")
              ELSE reb_pc' = "write_weights" /\ UNCHANGED failure
    /\ UNCHANGED <<rets, min_observations, port_rows, files, attempts, optVars, selVars, statsVars, extVars>>

\* Lines 50-54: weights.to_csv(weights_path).
RebWriteWeights ==
    /\ reb_pc = "write_weights"
    /\ files' = files \cup {"weights"}
    /\ reb_pc' = "write_report"
    /\ UNCHANGED <<rets, min_observations, port_rows, failure, attempts, optVars, selVars, statsVars, extVars>>

\* Lines 56-92: report_path.write_text(report); return.
RebWriteReport ==
    /\ reb_pc = "write_report"
    /\ files' = files \cup {"report"}
    /\ reb_pc' = "done"
    /\ UNCHANGED <<rets, min_observations, port_rows, failure, attempts, optVars, selVars, statsVars, extVars>>

NextReb ==
    \/ RebLoad \/ RebFilter \/ RebSelect \/ RebOptimize
    \/ RebRegress \/ RebWriteWeights \/ RebWriteReport
SpecReb == InitReb /\ [][NextReb]_vars

\* ================================================================ claims
AbsDiff(a, b) == IF a >= b THEN a - b ELSE b - a
NonNegative(series) == \A i \in 1..Len(series) : series[i].val >= 0
\* The entries sum to 1.0 up to the rounding of one unit (1e-6) per entry.
SumsToOne(series) == AbsDiff(SumSeq(Values(series)), SCALE) <= Len(series)
\* The slack left to a weight over max_weight: twice the solver's tolerance.
WeightTol == 2 * SolverEps
Capped(series, maxw) == \A i \in 1..Len(series) : series[i].val <= maxw + WeightTol
Stage1Val(c) == LET i == CHOOSE j \in 1..Len(stage1) : stage1[j].col = c IN stage1[i].val

\* C1 as stated: whenever pragmatic_cardinality_mv returns, every returned
\* weight is >= 0 and the weights sum to 1.
C1_Original ==
    opt_pc = "returned" => NonNegative(final) /\ SumsToOne(final)

\* C1 amended: whenever pragmatic_cardinality_mv returns for a matrix with at
\* least one column, every returned weight is >= 0 and the weights sum to 1
\* (to one rounding unit per entry), also after weights <= 1e-6 were dropped.
C1_NonNegativeSumToOne ==
    (opt_pc = "returned" /\ columns # <<>>) => NonNegative(final) /\ SumsToOne(final)

\* C1 witness: a positive Stage-2 weight of 1e-6 was dropped and the rest
\* renormalized.
C1_Witness ==
    /\ opt_pc = "returned"
    /\ Len(final) < Len(stage2)
    /\ \E i \in 1..Len(stage2) : stage2[i].val = DropThreshold
    /\ SumSeq(Values(final)) > SumSeq(Values(DropSmall(stage2)))

\* C2: every returned weight is <= max_weight plus a small tolerance (twice the
\* solver's), after the clip and renormalization of _solve_mv and the
\* renormalization that follows the drop of small weights.
C2_WeightsCapped ==
    opt_pc = "returned" => Capped(final, max_weight)

\* C2 witness: a returned weight over a max_weight below 1, renormalized after a
\* drop: the tolerance is used.
C2_Witness ==
    /\ opt_pc = "returned"
    /\ max_weight < SCALE
    /\ Len(final) < Len(stage2)
    /\ \E i \in 1..Len(final) : final[i].val > max_weight

\* C3: the returned assets are among the max_positions assets with the largest
\* Stage-1 weights (no asset left out of the selection has a larger Stage-1
\* weight than a selected one), so there are at most max_positions of them.
C3_OnlyLargestStage1 ==
    opt_pc = "returned" =>
        /\ IndexSet(final) \subseteq IndexSet(selected)
        /\ Len(final) <= max_positions
        /\ Len(selected) = Min(max_positions, Len(columns))
        /\ Cardinality(IndexSet(selected)) = Len(selected)
        /\ IndexSet(selected) \subseteq IndexSet(stage1)
        /\ \A c \in IndexSet(selected) : \A d \in IndexSet(stage1) \ IndexSet(selected) :
               Stage1Val(c) >= Stage1Val(d)

\* C3 witness: more candidate columns than max_positions, an asset with a
\* positive Stage-1 weight is left out, and max_positions assets are returned.
C3_Witness ==
    /\ opt_pc = "returned"
    /\ Len(columns) > max_positions
    /\ Len(final) = max_positions
    /\ \E d \in IndexSet(stage1) \ IndexSet(selected) : Stage1Val(d) > 0

Stage2Valid ==
    /\ opt_pc = "returned"
    /\ Index(stage2) = Index(selected)
    /\ NonNegative(stage2)
    /\ SumsToOne(stage2)
    /\ Capped(stage2, max_weight)

\* C4 as stated: whenever Stage 1 yields a solution, Stage 2 yields weights
\* over the selected assets that are >= 0, sum to 1 and are <= max_weight
\* (read with the tolerances of C1 and C2), rather than failing.
C4_Original ==
    (opt_pc \in {"returned", "raised"} /\ stage1 # <<>>) => Stage2Valid

\* C4 amended: whenever Stage 1 yields a solution and the selected assets can
\* carry the whole portfolio (min(max_positions, columns) * max_weight >= 1),
\* Stage 2 yields weights over the selected assets that are >= 0, sum to 1 and
\* are <= max_weight up to the solver's tolerance; otherwise it fails.
C4_Stage2Solves ==
    (opt_pc \in {"returned", "raised"} /\ stage1 # <<>>) =>
        IF Feasible(Min(max_positions, Len(columns)), max_weight)
        THEN Stage2Valid
        ELSE opt_pc = "raised" /\ final = <<>>

\* C4 witness: Stage 2 re-solved a strictly smaller feasible problem.
C4_Witness ==
    /\ opt_pc = "returned"
    /\ Len(stage2) < Len(stage1)
    /\ Len(stage2) = max_positions
    /\ max_weight < SCALE

\* C6: select_top_n returns exactly min(top_n, columns) assets with their
\* compounded returns, non-increasing by position, and no asset left out has
\* a strictly higher compounded return than a returned one.
C6_TopNSorted ==
    sel_pc = "returned" =>
        LET compounded == TrailingCompoundedReturns(monthly_returns_df)
            all == {compounded[i] : i \in 1..Len(compounded)}
            got == {top[i] : i \in 1..Len(top)}
        IN  /\ Len(top) = Min(top_n, Len(monthly_returns_df))
            /\ Cardinality(IndexSet(top)) = Len(top)
            /\ got \subseteq all
            /\ IsNonIncreasing(top)
            /\ \A e \in all \ got : \A g \in got : e.val <= g.val

\* C6 witness: more columns than top_n, a strictly lower asset left out, and
\* strictly decreasing scores among the returned.
C6_Witness ==
    /\ sel_pc = "returned"
    /\ Len(monthly_returns_df) > top_n
    /\ Len(top) = top_n
    /\ top[1].val > top[Len(top)].val
    /\ \E e \in {TrailingCompoundedReturns(monthly_returns_df)[i] :
                    i \in 1..Len(monthly_returns_df)} :
           e.col \notin IndexSet(top) /\ e.val < top[Len(top)].val

PositionIn(series, c) == CHOOSE j \in 1..Len(series) : series[j].col = c

\* C7: assets with equal compounded return come out in their original column
\* order, so the tied assets that make the top_n cut are the leftmost ones.
C7_StableTies ==
    sel_pc = "returned" =>
        LET compounded == TrailingCompoundedReturns(monthly_returns_df)
            all == {compounded[i] : i \in 1..Len(compounded)}
        IN  /\ \A i, j \in 1..Len(top) :
                   (i < j /\ top[i].val = top[j].val) =>
                       PositionIn(compounded, top[i].col) < PositionIn(compounded, top[j].col)
            /\ \A e \in all : \A i \in 1..Len(top) :
                   (e.col \notin IndexSet(top) /\ e.val = top[i].val) =>
                       PositionIn(compounded, top[i].col) < PositionIn(compounded, e.col)

\* C9: on a matrix with no columns select_top_n returns an empty selection and
\* pragmatic_cardinality_mv returns an empty weight vector, neither raising.
C9_EmptyIsValid ==
    /\ (opt_pc \in {"returned", "raised"} /\ columns = <<>>) =>
           (opt_pc = "returned" /\ final = <<>>)
    /\ (sel_pc \in {"returned", "raised"} /\ monthly_returns_df = <<>>) =>
           (sel_pc = "returned" /\ top = <<>>)

\* C9 witness: both were called on the empty matrix and both returned.
C9_Witness ==
    /\ columns = <<>> /\ monthly_returns_df = <<>>
    /\ opt_pc = "returned" /\ sel_pc = "returned"
    /\ final = <<>> /\ top = <<>>

\* C5: when the optimizer or the factor regression fails in run_rebalance, the
\* run has ended with that failure, neither the weights file nor the report
\* file has been written, and the optimizer was called at most once.
C5_NoPartialOutput ==
    failure \in {"optimizer", "regression"} =>
        /\ reb_pc = "raised"
        /\ files = {}
        /\ attempts <= 1

\* A run that failed in the regression, after its one call of the optimizer
\* returned weights.
C5_Witness ==
    /\ reb_pc = "raised" /\ failure = "regression"
    /\ attempts = 1 /\ opt_pc = "returned" /\ final # <<>>

\* The matrix that would reach the ranker if no minimum were applied.
Unfiltered == SelectSeq(rets, LAMBDA c : Count(c) > 0)
\* The optimizer cannot solve for n candidate columns: Stage 1 runs over
\* min(top_n, n) columns and Stage 2 over at most max_positions of them.
RunInfeasible(n) ==
    LET k == Min(top_n, n)
    IN  k > 0 /\ (~Feasible(k, max_weight) \/ ~Feasible(Min(max_positions, k), max_weight))
RankerGetsOnlyEligible ==
    reb_pc \notin {"load", "filter"} =>
        /\ \A i \in 1..Len(monthly_returns_df) :
               Count(monthly_returns_df[i]) >= min_observations
        /\ {monthly_returns_df[i].col : i \in 1..Len(monthly_returns_df)}
             = {rets[i].col : i \in {j \in 1..Len(rets) : Count(rets[j]) >= min_observations}}

\* C8 as stated: every asset handed to the ranker has at least
\* min_observations returns, and leaving the others out never makes the run
\* fail: a run that fails in the optimizer, or in the regression for want of
\* any observation, would have failed with every asset kept as well.
C8_Original ==
    /\ RankerGetsOnlyEligible
    /\ failure = "optimizer" => RunInfeasible(Len(Unfiltered))
    /\ (failure = "regression" /\ port_rows = {}) => Unfiltered = <<>>

\* C8, amended: every asset handed to the ranker has at least min_observations
\* returns and the assets handed over are exactly those that have; the
\* exclusion itself raises nothing, and a run fails in the optimizer exactly
\* when the assets that remain are too few for the weight cap; a run in which
\* no asset remains writes no file (its regression has no observation).
C8_ExcludedBeforeRanking ==
    /\ RankerGetsOnlyEligible
    /\ reb_pc \in {"write_weights", "write_report", "done"} => monthly_returns_df # <<>>
    /\ failure \in {"none", "load", "optimizer", "ff5", "regression"}
    /\ reb_pc = "select" => failure = "none"
    /\ failure = "optimizer" => RunInfeasible(Len(monthly_returns_df))
    /\ reb_pc \in {"regress", "write_weights", "write_report", "done"} =>
           ~RunInfeasible(Len(monthly_returns_df))

\* A run that left out an asset with too few returns and completed.
C8_Witness ==
    /\ reb_pc = "done"
    /\ \E i \in 1..Len(rets) : Count(rets[i]) > 0 /\ Count(rets[i]) < min_observations
    /\ monthly_returns_df # <<>>

\* C10: portfolio_stats never raises; the monthly Sharpe is mean/std when the
\* standard deviation is > 0 and not-a-number otherwise, and the annualized
\* Sharpe follows the same rule on the annualized mean and volatility.
C10_NeverRaises ==
    /\ stats_pc # "raised"
    /\ stats_pc = "returned" =>
           /\ stats.sharpe_monthly.nan = ~Positive(stats.vol_monthly)
           /\ stats.sharpe_monthly.of = stats.mean_monthly
           /\ stats.sharpe_monthly.by = stats.vol_monthly
           /\ stats.sharpe_annual.nan = ~Positive(stats.vol_annual)
           /\ stats.sharpe_annual.of = stats.mean_annual
           /\ stats.sharpe_annual.by = stats.vol_annual

\* C11: first_trading_day_of_quarter returns the earliest session on or after
\* the quarter start: a session, not before the quarter start, in the quarter
\* of asof, with no session between the quarter start and it; it raises
\* ValueError exactly when no session lies within 14 days of the quarter start.
C11_EarliestSession ==
    LET start == QuarterStart(today)
    IN  /\ ftd_pc = "returned" =>
            /\ IsSession(calendar, first_day)
            /\ Ordinal(first_day) >= Ordinal(start)
            /\ QuarterLabel(first_day) = QuarterLabel(today)
            /\ \A o \in Ordinal(start)..(Ordinal(first_day) - 1) :
                   ~IsSession(calendar, DateAt[o])
        /\ ftd_pc = "raised" =>
            \A o \in Ordinal(start)..(Ordinal(start) + 14) :
                ~IsSession(calendar, DateAt[o])

\* A call in the middle of a first quarter whose first two days are no
\* sessions: the third of January is returned.
C11_Witness ==
    /\ ftd_pc = "returned"
    /\ today.month = 1 /\ today.day = 15
    /\ first_day = Date(today.year, 1, 3)

\* the first day of the quarter before dt's, from the quarter number
PreviousQuarterStart(dt) ==
    LET l == QuarterLabel(dt)
    IN  IF l[2] = 1 THEN Date(l[1] - 1, 10, 1) ELSE Date(l[1], 3 * (l[2] - 2) + 1, 1)

\* C13: with a session within 14 days of every quarter start,
\* most_recent_rebalance_date returns, without raising, a date <= today: the
\* first trading day of today's quarter when that is on or before today, and
\* otherwise the first trading day of the quarter before.
C13_MostRecent ==
    (calendar.closed = {} /\ mr_pc # "call" /\ mr_pc # "idle") =>
        /\ mr_pc = "returned"
        /\ Ordinal(reb_date) <= Ordinal(today)
        /\ LET cur == FirstTradingDayOfQuarter(calendar, today).date
           IN  IF Ordinal(cur) <= Ordinal(today)
               THEN reb_date = cur
               ELSE /\ reb_date =
                         FirstTradingDayOfQuarter(calendar, PreviousQuarterStart(today)).date
                    /\ QuarterLabel(reb_date) = QuarterLabel(PreviousQuarterStart(today))

\* A call on a day of the first quarter before its first session: the date
\* returned lies in October of the year before.
C13_Witness ==
    /\ mr_pc = "returned" /\ calendar.closed = {}
    /\ today.month = 1
    /\ reb_date.year = today.year - 1 /\ reb_date.month = 10

\* C12 as stated: among the invocations of schedule.main on dates of one
\* quarter, run_rebalance runs only while the weights file labelled with that
\* quarter is absent, and once one of them has written its weights file every
\* later one leaves the result files as they are.
C12_Original ==
    \A j \in 1..Len(sched_log) :
        /\ sched_log[j].outcome \in {"failed", "written"} =>
               WeightsFile(QuarterLabel(sched_log[j].today)) \notin sched_log[j].before
        /\ \A i \in 1..(j - 1) :
               (/\ QuarterLabel(sched_log[i].today) = QuarterLabel(sched_log[j].today)
                /\ sched_log[i].outcome = "written")
               => sched_log[j].after = sched_log[j].before

\* C12, amended: the label an invocation checks is the quarter of
\* most_recent_rebalance_date(today): today's quarter from its first trading
\* day on, the quarter before on the days before it.  run_rebalance runs
\* exactly when the weights file of that label is absent, a run writes the
\* files of that label and no other, a failed run changes nothing, and after
\* a run has written the label every later invocation that checks the same
\* label changes no result file.
C12_RunsWhileLabelAbsent ==
    \A j \in 1..Len(sched_log) :
        LET e == sched_log[j]
            rd == MostRecentRebalanceDate(calendar, e.today)
            cur == FirstTradingDayOfQuarter(calendar, e.today)
        IN  /\ (e.outcome = "raised") = (rd.status # "ok")
            /\ e.outcome = "raised" => e.after = e.before
            /\ e.outcome # "raised" =>
                 /\ e.label = QuarterLabel(rd.date)
                 /\ e.label = IF Ordinal(cur.date) <= Ordinal(e.today)
                              THEN QuarterLabel(e.today)
                              ELSE QuarterLabel(PreviousQuarterStart(e.today))
                 /\ (e.outcome = "exists") = (WeightsFile(e.label) \in e.before)
                 /\ e.outcome \in {"exists", "failed"} => e.after = e.before
                 /\ e.outcome = "written" =>
                        e.after = e.before \cup {WeightsFile(e.label), ReportFile(e.label)}
                 /\ \A i \in 1..(j - 1) :
                        (sched_log[i].outcome = "written" /\ sched_log[i].label = e.label)
                        => (e.outcome = "exists" /\ e.after = e.before)
            /\ j = Len(sched_log) => e.after = results_dir

\* Two invocations that check the same label: the first runs and writes the
\* weights file, the second finds it and does nothing.
C12_Witness ==
    /\ Len(sched_log) = 2
    /\ sched_log[1].outcome = "written" /\ sched_log[2].outcome = "exists"
    /\ sched_log[1].label = sched_log[2].label
    /\ sched_log[1].label = QuarterLabel(today)

\* the dates of the rows of the cache file that can be read
CachedDates(file) == TableDates(ReadCache(file))
IsAscending(t) == \A i \in 1..(Len(t) - 1) : t[i].date < t[i + 1].date

\* C14: in a call of get_price_history whose download raises or returns no
\* row, the call returns an empty table without raising and the cache file
\* stays as it was; the file changes only after a download with rows, and
\* then it holds one row per date of the cached and the new rows, the new row
\* where both have the date, in ascending order, so no cached date is lost.
C14_CacheMerge ==
    [][(px_pc = "call" /\ px_pc' # "call") =>
        /\ (px_download'.outcome = "raised"
            \/ (px_download'.outcome = "returned" /\ px_download'.rows = <<>>))
           => (px_pc' = "returned" /\ px_result' = <<>> /\ cache' = cache)
        /\ cache' # cache =>
            /\ px_download'.outcome = "returned" /\ px_download'.rows # <<>>
            /\ cache'.state = "table"
            /\ TableDates(cache'.rows) = CachedDates(cache) \cup TableDates(px_download'.rows)
            /\ IsAscending(cache'.rows)
            /\ \A i \in 1..Len(cache'.rows) :
                   (cache'.rows[i].src = "new")
                   = (cache'.rows[i].date \in TableDates(px_download'.rows))
        /\ CachedDates(cache) \subseteq CachedDates(cache')
      ]_vars

\* A call that merged: after a download with rows the file holds a row kept
\* from the cache next to the new rows.
C14_Witness ==
    /\ px_pc = "returned" /\ px_download.outcome = "returned"
    /\ cache.state = "table"
    /\ \E i \in 1..Len(cache.rows) : cache.rows[i].src = "cached"
    /\ \E i \in 1..Len(cache.rows) :
           /\ cache.rows[i].src = "new"
           /\ cache.rows[i].date \in TableDates(px_download.rows)

====
